---- MODULE Spec2Model ----
(***************************************************************************)
(* Log Management Engine of galaplate (pkg/controllers/log_controller.go): *)
(* the log file parser, the date-range filter, the paginator of the log    *)
(* viewer and the retention cleaner, over a model of the log directory.    *)
(***************************************************************************)
EXTENDS Integers, Sequences, FiniteSets, TLC

VARIABLES
    fs,     \* the filesystem below ./storage/logs: path -> node
    now,    \* the wall clock (time.Now()), in days
    req,    \* the call or request being served, with its inputs
    resp,   \* what it returned
    trail,  \* the cleanup runs made since the directory was last changed by
            \* another process; for registrations, the requests served so far
    db      \* the users table of the database: the rows, in the order of their ids

vars == <<fs, now, req, resp, trail, db>>

----------------------------------------------------------------------------
(* Bounds of the model *)

\* longest log file (lines) the parser is run on
MaxLines == 3
\* longest entry sequence the date filter is run on
MaxLogs == 3
\* longest log file (lines) the viewer is asked for
MaxViewLines == 3
\* days the clock advances while the cleaner is watched
MaxTicks == 1

----------------------------------------------------------------------------
(* Strings *)

\* A timestamp or date string, by the layout it is written in:
\*   "empty"    the empty string
\*   "rfc3339"  2025-01-15T10:00:00Z (fraction and zone offset allowed)
\*   "display"  2025-01-15 10:00:00  (the canonical display format; Go's
\*              time.Parse also accepts a fractional second after the seconds)
\*   "date"     2025-01-15
\*   "text"     anything else
\* day is the calendar day (1 = 2025-01-01, 32 = 2025-02-01), sec the second of
\* the day, nsec the fraction of the second.
Str(fmt, day, sec, nsec) == [fmt |-> fmt, day |-> day, sec |-> sec, nsec |-> nsec]
EmptyStr == Str("empty", 0, 0, 0)
TextStr == Str("text", 0, 0, 0)
DateStr(day) == Str("date", day, 0, 0)
DisplayStr(day, sec, nsec) == Str("display", day, sec, nsec)
RFC3339Str(day, sec, nsec) == Str("rfc3339", day, sec, nsec)

\* 24 * time.Hour, in seconds
SecondsPerDay == 86400

\* time.Time: seconds and nanoseconds
Time(sec, nsec) == [sec |-> sec, nsec |-> nsec]
Before(t, u) == t.sec < u.sec \/ (t.sec = u.sec /\ t.nsec < u.nsec)
After(t, u) == Before(u, t)

\* time.Parse(layout, s): layout is one of "rfc3339", "display", "date"
TimeParse(layout, s) ==
    IF s.fmt = layout
    THEN [ok |-> TRUE, t |-> Time(s.day * SecondsPerDay + s.sec, s.nsec)]
    ELSE [ok |-> FALSE, t |-> Time(0, 0)]

\* t.Format("2006-01-02 15:04:05"): the fraction of the second is not printed
FormatDisplay(t) ==
    DisplayStr(t.sec \div SecondsPerDay, t.sec % SecondsPerDay, 0)

\* strings.ToLower on the level names of the model
ToLower(s) ==
    CASE s = "ERROR" -> "error"
      [] s = "Warn" -> "warn"
      [] OTHER -> s

----------------------------------------------------------------------------
(* JSON values and the Go values encoding/json decodes them to *)

\* On the wire: a string, a number, and the additional_info member of an
\* object, which is not there (or null) or is an object with a set of members
JString(s) == [json |-> "string", v |-> s]
JNumber(n) == [json |-> "number", v |-> n]
InfoAbsent == [present |-> FALSE, fields |-> {}]
InfoObject(fields) == [present |-> TRUE, fields |-> fields]

\* In Go: a string, a float64 (every JSON number decoded into an `any`), and a
\* map[string]any, which is nil or holds a set of key-value pairs
GoString(s) == [go |-> "string", v |-> s]
GoFloat(n) == [go |-> "float64", v |-> n]
NilMap == [nil |-> TRUE, fields |-> {}]
GoMap(fields) == [nil |-> FALSE, fields |-> fields]

DecodeValue(j) == IF j.json = "number" THEN GoFloat(j.v) ELSE GoString(j.v)
EncodeValue(g) == IF g.go = "float64" THEN JNumber(g.v) ELSE JString(g.v)

\* json.Unmarshal into a map[string]any field
UnmarshalMap(info) ==
    IF ~info.present THEN NilMap
    ELSE GoMap({ <<f[1], DecodeValue(f[2])>> : f \in info.fields })

\* json.Marshal of a map that is not nil
MarshalMap(m) == InfoObject({ <<f[1], EncodeValue(f[2])>> : f \in m.fields })

----------------------------------------------------------------------------
(* Log File Parser *)

\* bufio.MaxScanTokenSize: the longest line bufio.Scanner returns
MaxScanTokenSize == 65536

\* One line of a log file: what it holds and how many bytes long it is.
\*   "blank"  only white space
\*   "bad"    not a JSON object of the LogEntry shape (truncated, foreign format)
\*   "json"   a JSON object; a field it lacks decodes to the empty string
\*   info     the line's additional_info member: none, or an object
Line(kind, len, ts, level, msg) ==
    [kind |-> kind, len |-> len, ts |-> ts, level |-> level, msg |-> msg,
     info |-> InfoAbsent]
WithInfo(line, info) == [line EXCEPT !.info = info]

\* LogEntry with a nil AdditionalInfo
LogEntry(ts, level, msg) ==
    [Timestamp |-> ts, Level |-> level, Message |-> msg, AdditionalInfo |-> NilMap]
WithAdditionalInfo(entry, m) == [entry EXCEPT !.AdditionalInfo = m]

\* strings.TrimSpace(scanner.Text()) == ""
IsBlank(line) == line.kind = "blank"

\* json.Unmarshal([]byte(line), &logEntry) returns no error
Decodes(line) == line.kind = "json"

NormalizeTimestamp(ts) ==
    IF ts.fmt # "empty"
    THEN LET p == TimeParse("rfc3339", ts)
         IN IF p.ok THEN FormatDisplay(p.t) ELSE ts
    ELSE ts

\* The level with strings.ToLower left out: a level would keep its capitals.
NormalizeLevelAsIs(level) == IF level = "" THEN "info" ELSE level

NormalizeLevel(level) == IF level = "" THEN "info" ELSE ToLower(level)

\* bufio.Scanner.Scan: a line of MaxScanTokenSize bytes or more does not fit the
\* scanner's buffer; Scan returns false and Err() is bufio.ErrTooLong
ScanTooLong(line) == line.len >= MaxScanTokenSize

RECURSIVE ScanLoop(_, _, _)
ScanLoop(lines, i, logs) ==
    IF i > Len(lines) THEN [logs |-> logs, err |-> FALSE]
    ELSE IF ScanTooLong(lines[i]) THEN [logs |-> logs, err |-> TRUE]
    ELSE IF IsBlank(lines[i]) \/ ~Decodes(lines[i]) THEN ScanLoop(lines, i + 1, logs)
    ELSE ScanLoop(lines, i + 1,
                  Append(logs, WithAdditionalInfo(
                                   LogEntry(NormalizeTimestamp(lines[i].ts),
                                            NormalizeLevel(lines[i].level),
                                            lines[i].msg),
                                   UnmarshalMap(lines[i].info))))

RECURSIVE ReverseLoop(_, _)
ReverseLoop(logs, i) ==
    IF i >= Len(logs) \div 2 THEN logs
    ELSE LET j == Len(logs) - 1 - i
         IN ReverseLoop([logs EXCEPT ![i + 1] = logs[j + 1], ![j + 1] = logs[i + 1]], i + 1)

reverseSlice(logs) == ReverseLoop(logs, 0)

\* os.Open(filePath) succeeds
CanOpen(node) == node.exists /\ ~node.isDir /\ node.openOk

\* parseLogFile on an open file's lines
ParseLines(lines) ==
    LET r == ScanLoop(lines, 1, <<>>)
    IN IF r.err THEN [logs |-> <<>>, err |-> TRUE]
       ELSE [logs |-> reverseSlice(r.logs), err |-> FALSE]

parseLogFile(node) ==
    IF ~CanOpen(node) THEN [logs |-> <<>>, err |-> TRUE]
    ELSE ParseLines(node.lines)

----------------------------------------------------------------------------
(* Date-Range Filter *)

\* The body of filterLogsByDate's loop with the 24h-1s of the upper bound left
\* out: the window would end at the first second of the last day.
EntryPassesToMidnight(log, dateFrom, dateTo) ==
    LET lt == TimeParse("display", log.Timestamp)
        f == TimeParse("date", dateFrom)
        u == TimeParse("date", dateTo)
    IN /\ log.Timestamp.fmt # "empty"
       /\ lt.ok
       /\ ~(dateFrom.fmt # "empty" /\ f.ok /\ Before(lt.t, f.t))
       /\ ~(dateTo.fmt # "empty" /\ u.ok /\ After(lt.t, u.t))

\* The body of the loop without the two `continue`s: an entry whose timestamp
\* does not parse would be kept.
EntryPassesKeepUnparsed(log, dateFrom, dateTo) ==
    LET lt == TimeParse("display", log.Timestamp)
        f == TimeParse("date", dateFrom)
        u == TimeParse("date", dateTo)
    IN \/ log.Timestamp.fmt = "empty"
       \/ ~lt.ok
       \/ /\ ~(dateFrom.fmt # "empty" /\ f.ok /\ Before(lt.t, f.t))
          /\ ~(dateTo.fmt # "empty" /\ u.ok
               /\ After(lt.t, Time(u.t.sec + SecondsPerDay - 1, u.t.nsec)))

\* The body of filterLogsByDate's loop: whether the entry is appended.
EntryPasses(log, dateFrom, dateTo) ==
    IF log.Timestamp.fmt = "empty" THEN FALSE
    ELSE LET lt == TimeParse("display", log.Timestamp)
         IN IF ~lt.ok THEN FALSE
            ELSE LET f == TimeParse("date", dateFrom)
                     u == TimeParse("date", dateTo)
                     toTime == Time(u.t.sec + SecondsPerDay - 1, u.t.nsec)
                     include1 == ~(dateFrom.fmt # "empty" /\ f.ok /\ Before(lt.t, f.t))
                     include2 == IF dateTo.fmt # "empty" /\ include1
                                 THEN ~(u.ok /\ After(lt.t, toTime))
                                 ELSE include1
                 IN include2

RECURSIVE FilterLoop(_, _, _, _, _)
FilterLoop(logs, i, dateFrom, dateTo, filteredLogs) ==
    IF i > Len(logs) THEN filteredLogs
    ELSE FilterLoop(logs, i + 1, dateFrom, dateTo,
                    IF EntryPasses(logs[i], dateFrom, dateTo)
                    THEN Append(filteredLogs, logs[i])
                    ELSE filteredLogs)

filterLogsByDate(logs, dateFrom, dateTo) ==
    IF dateFrom.fmt = "empty" /\ dateTo.fmt = "empty" THEN logs
    ELSE FilterLoop(logs, 1, dateFrom, dateTo, <<>>)

----------------------------------------------------------------------------
(* The log directory *)

\* ./storage/logs and what the model keeps below it, in the order
\* filepath.WalkDir visits them (os.ReadDir sorts a directory by file name)
Root == "."
WalkOrder == <<"a.log", "sub", "sub/b.log", "z.txt">>
Paths == {Root} \cup {WalkOrder[i] : i \in 1..Len(WalkOrder)}
IsDirPath(p) == p \in {Root, "sub"}
Parent(p) == IF p = "sub/b.log" THEN "sub" ELSE Root

\* A file or directory:
\*   exists  it is there
\*   mtime   its modification time (days)
\*   statOk  lstat on it succeeds (DirEntry.Info)
\*   rmOk    unlinking it succeeds (os.Remove)
\*   openOk  opening it for reading succeeds (os.Open; os.ReadDir of a directory)
\*   lines   a file's content
Node(exists, isDir, mtime, statOk, rmOk, openOk, lines) ==
    [exists |-> exists, isDir |-> isDir, mtime |-> mtime, statOk |-> statOk,
     rmOk |-> rmOk, openOk |-> openOk, lines |-> lines]

Absent(p) == Node(FALSE, IsDirPath(p), 0, TRUE, TRUE, TRUE, <<>>)
Dir(openOk) == Node(TRUE, TRUE, 0, TRUE, TRUE, openOk, <<>>)
File(mtime, statOk, rmOk, openOk, lines) ==
    Node(TRUE, FALSE, mtime, statOk, rmOk, openOk, lines)

\* the log directory with nothing in it
EmptyFS == [p \in Paths |-> IF p = Root THEN Dir(TRUE) ELSE Absent(p)]

NoResp == [kind |-> "none"]

----------------------------------------------------------------------------
(* The parser run on one file *)

\* What a line of the parsed file may be; its message is its line number.
LineShapes ==
    { Line("blank", 0, EmptyStr, "", 0),
      Line("bad", 20, EmptyStr, "", 0),
      Line("bad", MaxScanTokenSize, EmptyStr, "", 0),
      Line("json", 80, RFC3339Str(15, 36000, 0), "ERROR", 0),
      Line("json", 80, DisplayStr(14, 86399, 0), "", 0),
      Line("json", MaxScanTokenSize - 1, TextStr, "Warn", 0),
      Line("json", MaxScanTokenSize, RFC3339Str(16, 0, 500000000), "info", 0),
      Line("json", 40, EmptyStr, "", 0) }

LineSeqs ==
    UNION { { [i \in 1..n |-> [f[i] EXCEPT !.msg = i]] : f \in [1..n -> LineShapes] }
            : n \in 0..MaxLines }

ParsedFiles ==
    { Absent("a.log"), File(0, TRUE, TRUE, FALSE, <<>>) }
    \cup { File(0, TRUE, TRUE, TRUE, ls) : ls \in LineSeqs }

InitParse ==
    /\ fs \in { [EmptyFS EXCEPT !["a.log"] = n] : n \in ParsedFiles }
    /\ now = 0
    /\ req = [op |-> "parse", path |-> "a.log"]
    /\ resp = NoResp
    /\ trail = <<>>
    /\ db = <<>>

\* parseLogFile(filePath)
ParseCall ==
    /\ req.op = "parse"
    /\ resp.kind = "none"
    /\ LET r == parseLogFile(fs[req.path])
       IN resp' = [kind |-> "parsed", logs |-> r.logs, err |-> r.err]
    /\ UNCHANGED <<fs, now, req, trail, db>>

SpecParse == InitParse /\ [][ParseCall]_vars

\* the messages of the lines that are not blank and decode, last line first
RECURSIVE ValidMessagesReversed(_)
ValidMessagesReversed(lines) ==
    IF lines = <<>> THEN <<>>
    ELSE LET rest == ValidMessagesReversed(Tail(lines))
             l == Head(lines)
         IN IF l.kind = "json" THEN Append(rest, l.msg) ELSE rest

Messages(logs) == [i \in 1..Len(logs) |-> logs[i].Message]

\* C2: the parser returns exactly one entry per non-blank line that decodes,
\* last line first; a line that does not decode raises no error and does not
\* keep the valid lines before or after it from being returned.
C2_OneEntryPerValidLineReversed ==
    (resp.kind = "parsed" /\ CanOpen(fs[req.path]))
        => /\ ~resp.err
           /\ Messages(resp.logs) = ValidMessagesReversed(fs[req.path].lines)

\* C3: parseLogFile returns an error only when the file cannot be opened or
\* read: a file that opens parses without error whatever its lines are, and
\* of whatever length.
C3_ErrorOnlyWhenUnreadable ==
    resp.kind = "parsed" => (resp.err => ~CanOpen(fs[req.path]))

\* the level names written without capitals, and each level name so written
LowercaseLevels == { "error", "warn", "info" }
Lowercased(level) ==
    CASE level \in {"ERROR", "error"} -> "error"
      [] level \in {"Warn", "warn"} -> "warn"
      [] OTHER -> "info"

\* the line an entry was decoded from: its message is its line number
LineOf(entry) == fs[req.path].lines[entry.Message]

\* C15: every entry the parser returns has a non-empty, all-lowercase level:
\* "info" when the line has no level or an empty one, the lowercased level of
\* the line otherwise.
C15_LevelNormalized ==
    (resp.kind = "parsed" /\ ~resp.err)
        => \A i \in 1..Len(resp.logs) :
              LET e == resp.logs[i]
              IN /\ e.Level # ""
                 /\ e.Level \in LowercaseLevels
                 /\ e.Level = IF LineOf(e).level = "" THEN "info"
                              ELSE Lowercased(LineOf(e).level)

\* a file with a line whose level is ERROR and a line without level, parsed
C15_Witness ==
    /\ resp.kind = "parsed"
    /\ ~resp.err
    /\ \E i, j \in 1..Len(resp.logs) :
          /\ LineOf(resp.logs[i]).level = "ERROR" /\ resp.logs[i].Level = "error"
          /\ LineOf(resp.logs[j]).level = "" /\ resp.logs[j].Level = "info"

\* the canonical display format YYYY-MM-DD HH:MM:SS: seconds, no fraction
Canonical(ts) == ts.fmt = "display" /\ ts.nsec = 0

\* C16: every entry the parser returns carries its timestamp in the canonical
\* display format YYYY-MM-DD HH:MM:SS, whatever the timestamp of the line was.
C16_TimestampCanonical ==
    (resp.kind = "parsed" /\ ~resp.err)
        => \A i \in 1..Len(resp.logs) : Canonical(resp.logs[i].Timestamp)

----------------------------------------------------------------------------
(* The date filter run on one entry sequence *)

\* Timestamps the parser leaves in an entry
FilterStamps ==
    { DisplayStr(1, 0, 0), DisplayStr(14, SecondsPerDay - 1, 0), DisplayStr(15, 0, 0),
      DisplayStr(15, SecondsPerDay - 1, 0), DisplayStr(15, SecondsPerDay - 1, 500000000),
      DisplayStr(16, 0, 0), DisplayStr(32, 0, 0), EmptyStr, TextStr }

\* Values of the date_from and date_to parameters
FilterBounds == { EmptyStr, TextStr, DateStr(10), DateStr(15), DateStr(20) }

LogSeqs ==
    UNION { { [i \in 1..n |-> LogEntry(f[i], "info", i)] : f \in [1..n -> FilterStamps] }
            : n \in 0..MaxLogs }

InitFilter ==
    /\ fs = EmptyFS
    /\ now = 0
    /\ req \in { [op |-> "filter", logs |-> l, dateFrom |-> f, dateTo |-> t] :
                 l \in LogSeqs, f \in FilterBounds, t \in FilterBounds }
    /\ resp = NoResp
    /\ trail = <<>>
    /\ db = <<>>

\* filterLogsByDate(logs, dateFrom, dateTo)
FilterCall ==
    /\ req.op = "filter"
    /\ resp.kind = "none"
    /\ resp' = [kind |-> "filtered",
                logs |-> filterLogsByDate(req.logs, req.dateFrom, req.dateTo)]
    /\ UNCHANGED <<fs, now, req, trail, db>>

SpecFilter == InitFilter /\ [][FilterCall]_vars

Supplied(bound) == bound.fmt # "empty"
ParseableBound(bound) == bound.fmt = "date"
HasTime(log) == log.Timestamp.fmt = "display"

\* the entry's instant is at or after 00:00:00 of `from` and at or before
\* 23:59:59 of `to`, for the bounds that are supplied
InWindow(log, from, to) ==
    /\ HasTime(log)
    /\ LET s == log.Timestamp.day * SecondsPerDay + log.Timestamp.sec
           ns == log.Timestamp.nsec
       IN /\ Supplied(from) => s >= from.day * SecondsPerDay
          /\ Supplied(to) =>
                \/ s < to.day * SecondsPerDay + (SecondsPerDay - 1)
                \/ (s = to.day * SecondsPerDay + (SecondsPerDay - 1) /\ ns = 0)

Window(logs, from, to) ==
    LET Test(e) == InWindow(e, from, to) IN SelectSeq(logs, Test)

\* C4: with parseable bounds (one or both), the filter returns, in input
\* order, exactly the entries whose timestamp parses and lies in
\* [from 00:00:00, to 23:59:59], both ends included.
C4_DateWindow ==
    (/\ resp.kind = "filtered"
     /\ Supplied(req.dateFrom) \/ Supplied(req.dateTo)
     /\ Supplied(req.dateFrom) => ParseableBound(req.dateFrom)
     /\ Supplied(req.dateTo) => ParseableBound(req.dateTo))
        => resp.logs = Window(req.logs, req.dateFrom, req.dateTo)

\* entries of 2025-01-01, 2025-01-15, 2025-02-01 filtered with
\* from=2025-01-10 and to=2025-01-20 gave the entry of 2025-01-15 alone
C4_Witness ==
    /\ resp.kind = "filtered"
    /\ req.dateFrom = DateStr(10)
    /\ req.dateTo = DateStr(20)
    /\ req.logs = << LogEntry(DisplayStr(1, 0, 0), "info", 1),
                     LogEntry(DisplayStr(15, 0, 0), "info", 2),
                     LogEntry(DisplayStr(32, 0, 0), "info", 3) >>
    /\ resp.logs = << LogEntry(DisplayStr(15, 0, 0), "info", 2) >>

\* C5: an unparsable, non-empty bound is treated as absent: the result is
\* that of the call with the bound empty.
C5_UnparsableBoundIsAbsent ==
    resp.kind = "filtered"
        => LET from == IF ParseableBound(req.dateFrom) THEN req.dateFrom ELSE EmptyStr
               to == IF ParseableBound(req.dateTo) THEN req.dateTo ELSE EmptyStr
           IN resp.logs = filterLogsByDate(req.logs, from, to)

InResult(log) == \E i \in 1..Len(resp.logs) : resp.logs[i] = log

\* C6: an entry whose timestamp is empty or does not parse is in the result
\* exactly when no bound is supplied; with no bound the input is returned as
\* it is.
C6_UnparsedEntryKeptIffNoBound ==
    resp.kind = "filtered"
        => /\ \A i \in 1..Len(req.logs) :
                ~HasTime(req.logs[i])
                    => (InResult(req.logs[i])
                            <=> (~Supplied(req.dateFrom) /\ ~Supplied(req.dateTo)))
           /\ (~Supplied(req.dateFrom) /\ ~Supplied(req.dateTo)) => resp.logs = req.logs

\* a bound was supplied and the entry without a timestamp was dropped while
\* the entry with one was kept
C6_Witness ==
    /\ resp.kind = "filtered"
    /\ req.dateFrom = DateStr(10)
    /\ req.dateTo = EmptyStr
    /\ req.logs = << LogEntry(EmptyStr, "info", 1), LogEntry(DisplayStr(15, 0, 0), "info", 2) >>
    /\ resp.logs = << LogEntry(DisplayStr(15, 0, 0), "info", 2) >>

----------------------------------------------------------------------------
(* Query parameters that hold numbers: strings as sequences of characters *)

Digits == <<"0", "1", "2", "3", "4", "5", "6", "7", "8", "9">>
IsDigit(c) == \E d \in 1..10 : Digits[d] = c
DigitVal(c) == (CHOOSE d \in 1..10 : Digits[d] = c) - 1

RECURSIVE DigitsValue(_, _)
DigitsValue(s, acc) ==
    IF s = <<>> THEN acc ELSE DigitsValue(Tail(s), acc * 10 + DigitVal(Head(s)))

\* strconv.Atoi: an optional sign and decimal digits
Atoi(s) ==
    LET signed == s # <<>> /\ Head(s) \in {"+", "-"}
        body == IF signed THEN Tail(s) ELSE s
    IN IF body = <<>> \/ \E i \in 1..Len(body) : ~IsDigit(body[i])
       THEN [ok |-> FALSE, n |-> 0]
       ELSE [ok |-> TRUE,
             n |-> IF signed /\ Head(s) = "-" THEN 0 - DigitsValue(body, 0)
                   ELSE DigitsValue(body, 0)]

\* c.Query(key, defaultValue): the default stands in for a missing or empty value
Query(value, defaultValue) == IF value = <<>> THEN defaultValue ELSE value

----------------------------------------------------------------------------
(* Retention Cleaner *)

\* days := 30
DefaultDays == 30
\* 1024 * 1024
BytesPerMB == 1048576

\* info.Size(): the bytes of the lines and their newlines
RECURSIVE FileSize(_)
FileSize(lines) == IF lines = <<>> THEN 0 ELSE Head(lines).len + 1 + FileSize(Tail(lines))

\* The retention window with zero taken as a window (d >= 0).
RetentionDaysFromZero(daysParam) ==
    LET d == Atoi(Query(daysParam, <<"3", "0">>))
    IN IF d.ok /\ d.n >= 0 THEN d.n ELSE DefaultDays

\* the retention window of a days parameter
RetentionDays(daysParam) ==
    LET d == Atoi(Query(daysParam, <<"3", "0">>))
    IN IF d.ok /\ d.n > 0 THEN d.n ELSE DefaultDays

\* os.Remove(path)
Remove(files, p) == [files EXCEPT ![p] = Absent(p)]

\* The walk's state: the filesystem, the two counters, the files removed, the
\* directories whose remaining entries are skipped (filepath.SkipDir), and the
\* error that ended the walk, if one did.
WalkState(files) ==
    [fs |-> files, deletedCount |-> 0, totalSize |-> 0, removed |-> {},
     skipped |-> {}, err |-> FALSE]

\* The callback with filepath.SkipDir returned once a file has been removed:
\* the rest of the file's directory would be left for a later run.
CleanupVisitSkipAfterRemove(st, p, cutoffDate) ==
    LET n == st.fs[p]
    IN IF n.isDir \/ ~n.statOk \/ ~(n.mtime < cutoffDate) THEN st
       ELSE IF n.rmOk
       THEN [st EXCEPT !.totalSize = @ + FileSize(n.lines), !.fs = Remove(st.fs, p),
                       !.deletedCount = @ + 1, !.removed = @ \cup {p},
                       !.skipped = @ \cup {Parent(p)}]
       ELSE [st EXCEPT !.totalSize = @ + FileSize(n.lines)]

\* CleanupLogs' callback on an entry the walk reached without error
CleanupVisit(st, p, cutoffDate) ==
    LET n == st.fs[p]
    IN IF n.isDir THEN st
       ELSE IF ~n.statOk THEN st
       ELSE IF n.mtime < cutoffDate
       THEN LET counted == [st EXCEPT !.totalSize = @ + FileSize(n.lines)]
            IN IF n.rmOk
               THEN [counted EXCEPT !.fs = Remove(st.fs, p),
                                    !.deletedCount = @ + 1,
                                    !.removed = @ \cup {p}]
               ELSE counted
       ELSE st

\* filepath.WalkDir below the root, entry by entry: an entry that is not there
\* is not listed; a directory is visited and then read, and a failed read is
\* handed to the callback, which returns it and so ends the walk.
RECURSIVE WalkEntries(_, _, _)
WalkEntries(st, i, cutoffDate) ==
    IF i > Len(WalkOrder) \/ st.err THEN st
    ELSE LET p == WalkOrder[i]
             n == st.fs[p]
         IN IF ~n.exists \/ Parent(p) \in st.skipped \/ Root \in st.skipped
            THEN WalkEntries(st, i + 1, cutoffDate)
            ELSE LET visited == CleanupVisit(st, p, cutoffDate)
                 IN IF n.isDir /\ ~n.openOk
                    THEN [visited EXCEPT !.err = TRUE]
                    ELSE WalkEntries(visited, i + 1, cutoffDate)

\* filepath.WalkDir(logDir, callback)
CleanupWalk(files, cutoffDate) ==
    IF ~files[Root].exists \/ ~files[Root].openOk
    THEN [WalkState(files) EXCEPT !.err = TRUE]
    ELSE WalkEntries(WalkState(files), 1, cutoffDate)

CleanupResponse(st, cutoffDate, days) ==
    IF st.err
    THEN [kind |-> "cleanup", status |-> 500, success |-> FALSE]
    ELSE [kind |-> "cleanup", status |-> 200, success |-> TRUE,
          deleted_count |-> st.deletedCount,
          total_size_mb |-> [num |-> st.totalSize, den |-> BytesPerMB],
          cutoff_date |-> DateStr(cutoffDate),
          retention_days |-> days]

----------------------------------------------------------------------------
(* The cleaner at work on a directory the application logs into *)

\* values of the days parameter
DaysParams == { <<>>, <<"a">>, <<"1">>, <<"3", "1">> }

FirstDay == DefaultDays + 1

\* modification times: before, at and after the cutoff of the default window
\* on the first day
MTimes == { 0, 1, DefaultDays }

\* what the files of the directory hold
StockLines(p) ==
    CASE p = "a.log" -> << Line("json", 9, RFC3339Str(1, 0, 0), "info", 1) >>
      [] p = "sub/b.log" -> << Line("json", 19, RFC3339Str(1, 0, 0), "ERROR", 1) >>
      [] OTHER -> << Line("bad", 39, EmptyStr, "", 1) >>

\* lstat and unlink both succeed; lstat succeeds and unlink fails (a directory
\* that cannot be written, an immutable file); both fail (a directory that
\* cannot be searched)
Perms(p) ==
    CASE p = "a.log" -> { <<TRUE, TRUE>>, <<TRUE, FALSE>> }
      [] p = "sub/b.log" -> { <<TRUE, TRUE>>, <<FALSE, FALSE>> }
      [] OTHER -> { <<TRUE, TRUE>> }

\* a file: not there, or there with some age
StockFiles(p) ==
    {Absent(p)}
    \cup { File(t, perm[1], perm[2], TRUE, StockLines(p)) : t \in MTimes, perm \in Perms(p) }

\* the subdirectory and the file in it: no subdirectory; one that can be read,
\* with or without the file; one that cannot be read, which nobody looks into
\* and in which the model keeps one old file
SubTrees ==
    { <<Absent("sub"), Absent("sub/b.log")>>,
      <<Dir(FALSE), File(0, TRUE, TRUE, TRUE, StockLines("sub/b.log"))>> }
    \cup { <<Dir(TRUE), b>> : b \in StockFiles("sub/b.log") }

Tree(a, sub, z) ==
    [p \in Paths |->
        CASE p = Root -> Dir(TRUE)
          [] p = "a.log" -> a
          [] p = "sub" -> sub[1]
          [] p = "sub/b.log" -> sub[2]
          [] OTHER -> z]

\* a log directory that is missing, and one that cannot be read
BrokenRoots ==
    { [EmptyFS EXCEPT ![Root] = Absent(Root)],
      [EmptyFS EXCEPT ![Root] = Dir(FALSE),
                      !["a.log"] = File(0, TRUE, TRUE, TRUE, StockLines("a.log"))] }

InitCleanup ==
    /\ fs \in BrokenRoots
              \cup { Tree(a, sub, z) : a \in StockFiles("a.log"), sub \in SubTrees,
                                       z \in StockFiles("z.txt") }
    /\ now = FirstDay
    /\ req = [op |-> "none"]
    /\ resp = NoResp
    /\ trail = <<>>
    /\ db = <<>>

\* the run before the last is remembered by its cutoff and what it removed
Shorten(run) == [cutoff |-> run.cutoff, removed |-> run.removed]
LastTwo(s) == IF s = <<>> THEN <<>> ELSE << Shorten(s[Len(s)]) >>

\* POST /cleanup?days=...
CleanupLogs(daysParam) ==
    LET days == RetentionDays(daysParam)
        cutoffDate == now - days
        st == CleanupWalk(fs, cutoffDate)
        r == CleanupResponse(st, cutoffDate, days)
    IN /\ fs' = st.fs
       /\ req' = [op |-> "cleanup", days |-> daysParam]
       /\ resp' = r
       /\ trail' = Append(LastTwo(trail), [cutoff |-> cutoffDate, before |-> fs,
                                           removed |-> st.removed, resp |-> r])
       /\ UNCHANGED <<now, db>>

\* a day passes
Tick ==
    /\ now < FirstDay + MaxTicks
    /\ now' = now + 1
    /\ UNCHANGED <<fs, req, resp, trail, db>>

\* the application's logger (another process) appends a line to a.log,
\* creating the file when it is not there
WriteLog ==
    /\ fs[Root].exists
    /\ Len(fs["a.log"].lines) < MaxLines
    /\ LET old == fs["a.log"]
           line == Line("json", 9, RFC3339Str(now, 0, 0), "info", Len(old.lines) + 1)
       IN fs' = [fs EXCEPT !["a.log"] =
                    IF old.exists THEN [old EXCEPT !.lines = Append(@, line), !.mtime = now]
                    ELSE File(now, TRUE, TRUE, TRUE, <<line>>)]
    /\ trail' = <<>>
    /\ UNCHANGED <<now, req, resp, db>>

NextCleanup ==
    \/ \E d \in DaysParams : CleanupLogs(d)
    \/ Tick
    \/ WriteLog

SpecCleanup == InitCleanup /\ [][NextCleanup]_vars

\* the last cleanup run, while no other process has changed the directory
\* since: fs is the directory as the run left it
Ran == trail # <<>>
LastRun == trail[Len(trail)]
Files == { p \in Paths : ~IsDirPath(p) }
WalkStarted(run) == run.before[Root].exists /\ run.before[Root].openOk
\* the directories above the file can be read
Listed(run, p) == WalkStarted(run) /\ run.before[Parent(p)].openOk
Old(run, p) == run.before[p].exists /\ run.before[p].mtime < run.cutoff
Gone(run, p) == run.before[p].exists /\ ~fs[p].exists

RECURSIVE SumSizes(_, _)
SumSizes(files, ps) ==
    IF ps = {} THEN 0
    ELSE LET p == CHOOSE q \in ps : TRUE
         IN FileSize(files[p].lines) + SumSizes(files, ps \ {p})

\* C7: a run deletes every file whose modification time is strictly before
\* the cutoff, when its removal succeeds, and deletes no file whose
\* modification time is at or after the cutoff.
C7_DeletesExactlyTheOld ==
    (Ran /\ WalkStarted(LastRun))
        => \A p \in Files :
              /\ (Listed(LastRun, p) /\ Old(LastRun, p)
                    /\ LastRun.before[p].statOk /\ LastRun.before[p].rmOk)
                     => Gone(LastRun, p)
              /\ Gone(LastRun, p) => Old(LastRun, p)

\* C8: a second run with the same cutoff, the directory untouched in between,
\* deletes no file, reports deleted_count = 0 and leaves the files as they were.
C8_SecondRunDeletesNothing ==
    (Len(trail) = 2 /\ trail[1].cutoff = trail[2].cutoff)
        => /\ trail[2].removed = {}
           /\ fs = trail[2].before
           /\ \A p \in Paths : ~Gone(trail[2], p)
           /\ trail[2].resp.success => trail[2].resp.deleted_count = 0

\* two runs with one cutoff: the first removed files, left an old file it could
\* not remove, and the second removed nothing
C8_Witness ==
    /\ Len(trail) = 2
    /\ trail[1].cutoff = trail[2].cutoff
    /\ trail[1].removed # {}
    /\ \E p \in Files : Old(trail[2], p) /\ ~trail[2].before[p].rmOk
    /\ trail[2].resp.success
    /\ trail[2].resp.deleted_count = 0

\* C9: deleted_count is the number of files removed and the reported size is
\* the sum of the sizes of the removed files; a file whose deletion fails adds
\* to neither.
C9_ReportMatchesRemoved ==
    (Ran /\ LastRun.resp.success)
        => /\ LastRun.resp.deleted_count = Cardinality({ p \in Files : Gone(LastRun, p) })
           /\ LastRun.resp.total_size_mb.num
                = SumSizes(LastRun.before, { p \in Files : Gone(LastRun, p) })

\* C10: once the root log directory has been read, no error on a nested
\* directory or file makes the run fail.
C10_FailsOnlyIfWalkCannotStart ==
    (Ran /\ WalkStarted(LastRun)) => LastRun.resp.success

----------------------------------------------------------------------------
(* The cleaner asked for retention windows of every kind *)

\* values of the days parameter: absent, not a number, zero, negative, and
\* positive ones below and above the default
RetentionParams ==
    { <<>>, <<"a">>, <<"3", "x">>, <<"0">>, <<"-", "5">>, <<"7">>, <<"+", "7">>,
      <<"4", "0">> }

\* directories that can be read throughout, with files of every age
RetentionTrees ==
    { Tree(File(ta, TRUE, TRUE, TRUE, StockLines("a.log")),
           <<Dir(TRUE), File(tb, TRUE, TRUE, TRUE, StockLines("sub/b.log"))>>,
           z) :
        ta \in MTimes, tb \in MTimes,
        z \in { Absent("z.txt"), File(0, TRUE, TRUE, TRUE, StockLines("z.txt")) } }

InitRetention ==
    /\ fs \in RetentionTrees
    /\ now = FirstDay
    /\ req = [op |-> "none"]
    /\ resp = NoResp
    /\ trail = <<>>
    /\ db = <<>>

SpecRetention == InitRetention /\ [][\E d \in RetentionParams : CleanupLogs(d)]_vars

\* C24: Cleanup uses N = days when the days parameter parses as an integer
\* above 0, and N = 30 when it is absent, not a number, zero or negative;
\* invalid input is never rejected with an error, and the reported
\* retention_days is the N used for the cutoff.
C24_RetentionWindowSanitized ==
    (Ran /\ req.op = "cleanup")
        => LET a == Atoi(req.days)
               N == IF req.days # <<>> /\ a.ok /\ a.n > 0 THEN a.n ELSE 30
           IN /\ resp.status = 200
              /\ resp.success
              /\ resp.retention_days = N
              /\ LastRun.cutoff = now - N
              /\ resp.cutoff_date = DateStr(now - N)
              /\ \A p \in Files :
                    Gone(LastRun, p) <=> (Old(LastRun, p) /\ LastRun.before[p].mtime < now - N)

\* days=-5 is served with the default window, and the file older than 30 days
\* is removed
C24_Witness ==
    /\ Ran
    /\ req.op = "cleanup"
    /\ req.days = <<"-", "5">>
    /\ resp.success
    /\ resp.retention_days = 30
    /\ \E p \in Files : Gone(LastRun, p)

\* days=7 is served with a window of 7 days
C24_WitnessSeven ==
    /\ Ran
    /\ req.op = "cleanup"
    /\ req.days = <<"7">>
    /\ resp.retention_days = 7
    /\ \E p \in Files : Gone(LastRun, p) /\ LastRun.before[p].mtime = 1

----------------------------------------------------------------------------
(* File Discovery *)

\* d.Name(): the last element of the path
Name(p) == IF p = "sub/b.log" THEN "b.log" ELSE p

\* the characters of the file names of the model, and their byte order
Chars(name) ==
    CASE name = "a.log" -> <<"a", ".", "l", "o", "g">>
      [] name = "b.log" -> <<"b", ".", "l", "o", "g">>
      [] name = "sub" -> <<"s", "u", "b">>
      [] name = "z.txt" -> <<"z", ".", "t", "x", "t">>
      [] OTHER -> <<>>
Alphabet == <<".", "a", "b", "g", "l", "o", "s", "t", "u", "x", "z">>
Ord(c) == CHOOSE k \in 1..Len(Alphabet) : Alphabet[k] = c

\* strings.HasSuffix
HasSuffix(s, suffix) ==
    /\ Len(s) >= Len(suffix)
    /\ SubSeq(s, Len(s) - Len(suffix) + 1, Len(s)) = suffix

\* s < t, as Go compares strings
RECURSIVE StringLess(_, _)
StringLess(s, t) ==
    IF t = <<>> THEN FALSE
    ELSE IF s = <<>> THEN TRUE
    ELSE IF Head(s) # Head(t) THEN Ord(Head(s)) < Ord(Head(t))
    ELSE StringLess(Tail(s), Tail(t))

\* sort.Sort(sort.Reverse(sort.StringSlice(logFiles))): descending
RECURSIVE InsertDescending(_, _)
InsertDescending(sorted, name) ==
    IF sorted = <<>> THEN <<name>>
    ELSE IF StringLess(Chars(Head(sorted)), Chars(name)) THEN <<name>> \o sorted
    ELSE <<Head(sorted)>> \o InsertDescending(Tail(sorted), name)

\* The names left in the order of the walk.
KeepOrder(names) == names

RECURSIVE SortDescending(_)
SortDescending(names) ==
    IF names = <<>> THEN <<>>
    ELSE InsertDescending(SortDescending(Tail(names)), Head(names))

\* getLogFiles' walk: the names of the files that end in .log, until a directory
\* cannot be read
RECURSIVE DiscoverEntries(_, _, _)
DiscoverEntries(files, i, logFiles) ==
    IF i > Len(WalkOrder) THEN [logFiles |-> logFiles, err |-> FALSE]
    ELSE LET p == WalkOrder[i]
             n == files[p]
         IN IF ~n.exists THEN DiscoverEntries(files, i + 1, logFiles)
            ELSE IF n.isDir
            THEN IF n.openOk THEN DiscoverEntries(files, i + 1, logFiles)
                 ELSE [logFiles |-> <<>>, err |-> TRUE]
            ELSE IF HasSuffix(Chars(Name(p)), <<".", "l", "o", "g">>)
            THEN DiscoverEntries(files, i + 1, Append(logFiles, Name(p)))
            ELSE DiscoverEntries(files, i + 1, logFiles)

\* getLogFiles with the sort left out: the names in the order of the walk.
getLogFilesUnsorted(files) ==
    IF ~files[Root].exists \/ ~files[Root].openOk
    THEN [logFiles |-> <<>>, err |-> TRUE]
    ELSE DiscoverEntries(files, 1, <<>>)

getLogFiles(files) ==
    IF ~files[Root].exists \/ ~files[Root].openOk
    THEN [logFiles |-> <<>>, err |-> TRUE]
    ELSE LET w == DiscoverEntries(files, 1, <<>>)
         IN IF w.err THEN w ELSE [logFiles |-> SortDescending(w.logFiles), err |-> FALSE]

----------------------------------------------------------------------------
(* File discovery run on a directory *)

InitDiscover ==
    /\ fs \in BrokenRoots
              \cup { Tree(a, sub, z) : a \in StockFiles("a.log"), sub \in SubTrees,
                                       z \in StockFiles("z.txt") }
    /\ now = 0
    /\ req = [op |-> "discover"]
    /\ resp = NoResp
    /\ trail = <<>>
    /\ db = <<>>

\* getLogFiles(logDir)
Discover ==
    /\ req.op = "discover"
    /\ resp.kind = "none"
    /\ LET r == getLogFiles(fs)
       IN resp' = [kind |-> "discovered", logFiles |-> r.logFiles, err |-> r.err]
    /\ UNCHANGED <<fs, now, req, trail, db>>

SpecDiscover == InitDiscover /\ [][Discover]_vars

\* the log directory can be read, and so can every directory below it
RootReadable == fs[Root].exists /\ fs[Root].openOk
AllReadable == \A p \in Paths : (fs[p].exists /\ IsDirPath(p)) => fs[p].openOk

\* the non-directory files below the log directory, at any depth, whose name
\* ends in .log
LogFilePaths ==
    { p \in Files : /\ fs[p].exists
                    /\ fs[Parent(p)].exists
                    /\ Len(Chars(Name(p))) >= 4
                    /\ SubSeq(Chars(Name(p)), Len(Chars(Name(p))) - 3, Len(Chars(Name(p))))
                         = <<".", "l", "o", "g">> }

\* C19: getLogFiles returns the names of exactly the non-directory files, at
\* any depth under the log directory, whose name ends with ".log", in
\* descending lexicographic order; when the directory cannot be read it returns
\* an error and no list.
C19_DiscoversLogFilesDescending ==
    resp.kind = "discovered"
        => /\ (RootReadable /\ AllReadable)
                => /\ ~resp.err
                   /\ Len(resp.logFiles) = Cardinality(LogFilePaths)
                   /\ { resp.logFiles[i] : i \in 1..Len(resp.logFiles) }
                        = { Name(p) : p \in LogFilePaths }
                   /\ \A i, j \in 1..Len(resp.logFiles) :
                         i < j => StringLess(Chars(resp.logFiles[j]), Chars(resp.logFiles[i]))
           /\ ~RootReadable => (resp.err /\ resp.logFiles = <<>>)
           /\ resp.err => resp.logFiles = <<>>

\* a.log and z.txt beside sub/b.log: b.log is listed before a.log, z.txt is not
C19_Witness ==
    /\ resp.kind = "discovered"
    /\ ~resp.err
    /\ fs["z.txt"].exists
    /\ fs["sub/b.log"].exists
    /\ resp.logFiles = <<"b.log", "a.log">>

----------------------------------------------------------------------------
(* Directory stats: GET /logs/stats *)

\* time.Time{} is January 1, year 1: its day on the calendar of the model,
\* where day 1 is 2025-01-01
ZeroTimeDay == 0 - 739250

\* a modification time as a time.Time, and the zero time
ModTime(day) == [zero |-> FALSE, day |-> day]
ZeroTime == [zero |-> TRUE, day |-> ZeroTimeDay]

\* t.Format("2006-01-02")
FormatDate(t) == DateStr(t.day)

StatsState ==
    [totalFiles |-> 0, totalSize |-> 0, oldestFile |-> ZeroTime, newestFile |-> ZeroTime,
     err |-> FALSE]

\* The callback with Before and After exchanged: the oldest file would be the
\* one modified last.
StatsVisitExchanged(st, n) ==
    IF n.isDir THEN st
    ELSE LET counted == [st EXCEPT !.totalFiles = @ + 1]
         IN IF ~n.statOk THEN counted
            ELSE [counted EXCEPT
                    !.totalSize = @ + FileSize(n.lines),
                    !.oldestFile = IF @.zero \/ n.mtime > @.day THEN ModTime(n.mtime) ELSE @,
                    !.newestFile = IF @.zero \/ n.mtime < @.day THEN ModTime(n.mtime) ELSE @]

\* The callback returning the error of d.Info() instead of nil: a file that
\* cannot be stat'ed would end the walk.
StatsVisitReturnsErr(st, n) ==
    IF n.isDir THEN st
    ELSE LET counted == [st EXCEPT !.totalFiles = @ + 1]
         IN IF ~n.statOk THEN [counted EXCEPT !.err = TRUE]
            ELSE [counted EXCEPT
                    !.totalSize = @ + FileSize(n.lines),
                    !.oldestFile = IF @.zero \/ n.mtime < @.day THEN ModTime(n.mtime) ELSE @,
                    !.newestFile = IF @.zero \/ n.mtime > @.day THEN ModTime(n.mtime) ELSE @]

\* GetLogStats' callback on an entry the walk reached without error
StatsVisit(st, n) ==
    IF n.isDir THEN st
    ELSE LET counted == [st EXCEPT !.totalFiles = @ + 1]
         IN IF ~n.statOk THEN counted
            ELSE [counted EXCEPT
                    !.totalSize = @ + FileSize(n.lines),
                    !.oldestFile = IF @.zero \/ n.mtime < @.day THEN ModTime(n.mtime) ELSE @,
                    !.newestFile = IF @.zero \/ n.mtime > @.day THEN ModTime(n.mtime) ELSE @]

\* filepath.WalkDir below the root for GetLogStats: a directory that cannot be
\* read is handed to the callback as an error, which ends the walk
RECURSIVE StatsEntries(_, _, _)
StatsEntries(files, st, i) ==
    IF i > Len(WalkOrder) THEN st
    ELSE LET p == WalkOrder[i]
             n == files[p]
         IN IF ~n.exists \/ ~files[Parent(p)].exists THEN StatsEntries(files, st, i + 1)
            ELSE IF n.isDir /\ ~n.openOk THEN [StatsVisit(st, n) EXCEPT !.err = TRUE]
            ELSE StatsEntries(files, StatsVisit(st, n), i + 1)

StatsWalk(files) ==
    IF ~files[Root].exists \/ ~files[Root].openOk
    THEN [StatsState EXCEPT !.err = TRUE]
    ELSE StatsEntries(files, StatsState, 1)

StatsResponse(st) ==
    IF st.err
    THEN [kind |-> "stats", status |-> 500, success |-> FALSE]
    ELSE [kind |-> "stats", status |-> 200, success |-> TRUE,
          total_files |-> st.totalFiles,
          total_size_mb |-> [num |-> st.totalSize, den |-> BytesPerMB],
          oldest_date |-> FormatDate(st.oldestFile),
          newest_date |-> FormatDate(st.newestFile)]

InitStats ==
    /\ fs \in BrokenRoots
              \cup { Tree(a, sub, z) : a \in StockFiles("a.log"), sub \in SubTrees,
                                       z \in StockFiles("z.txt") }
    /\ now = FirstDay
    /\ req = [op |-> "none"]
    /\ resp = NoResp
    /\ trail = <<>>
    /\ db = <<>>

\* The stats request with the files it cannot stat removed on the way.
GetLogStatsPruning ==
    /\ req.op = "none"
    /\ req' = [op |-> "stats"]
    /\ resp' = StatsResponse(StatsWalk(fs))
    /\ fs' = [p \in Paths |-> IF fs[p].exists /\ ~fs[p].isDir /\ fs[p].mtime = 0
                              THEN Absent(p) ELSE fs[p]]
    /\ UNCHANGED <<now, trail, db>>

\* GET /logs/stats
GetLogStats ==
    /\ req.op = "none"
    /\ req' = [op |-> "stats"]
    /\ resp' = StatsResponse(StatsWalk(fs))
    /\ UNCHANGED <<fs, now, trail, db>>

SpecStats == InitStats /\ [][GetLogStats]_vars

\* the non-directory files under the log directory
FilesUnder == { p \in Files : fs[p].exists /\ fs[Parent(p)].exists }

\* C20: when every file can be stat'ed, Stats reports total_files equal to the
\* number of non-directory files under the log directory and a total size
\* equal to the sum of their sizes; oldest_date <= newest_date in every
\* response, that of an empty directory included.
C20_StatsTotals ==
    (resp.kind = "stats" /\ resp.success)
        => /\ (\A p \in FilesUnder : fs[p].statOk)
                => /\ resp.total_files = Cardinality(FilesUnder)
                   /\ resp.total_size_mb.num = SumSizes(fs, FilesUnder)
                   /\ resp.total_size_mb.den = BytesPerMB
           /\ resp.oldest_date.fmt = "date"
           /\ resp.newest_date.fmt = "date"
           /\ resp.oldest_date.day <= resp.newest_date.day

\* three files of different ages, all counted; the oldest before the newest
C20_Witness ==
    /\ resp.kind = "stats"
    /\ resp.success
    /\ \A p \in FilesUnder : fs[p].statOk
    /\ resp.total_files = 3
    /\ resp.total_size_mb.num = 10 + 20 + 40
    /\ resp.oldest_date.day < resp.newest_date.day

\* an empty directory: no file, no size, both dates that of the zero time
C20_WitnessEmpty ==
    /\ resp.kind = "stats"
    /\ resp.success
    /\ resp.total_files = 0
    /\ resp.oldest_date = resp.newest_date

\* the files under the log directory that can be stat'ed
StatableUnder == { p \in FilesUnder : fs[p].statOk }

\* C21: in Stats a file whose stat fails is skipped: it adds nothing to
\* total_files, to the total size or to the oldest and newest dates, and the
\* walk goes on to the remaining files and returns success.
C21_UnstatableFileSkipped ==
    (resp.kind = "stats" /\ RootReadable /\ AllReadable)
        => /\ resp.success
           /\ resp.total_files = Cardinality(StatableUnder)
           /\ resp.total_size_mb.num = SumSizes(fs, StatableUnder)
           /\ \A p \in StatableUnder :
                 /\ resp.oldest_date.day <= fs[p].mtime
                 /\ resp.newest_date.day >= fs[p].mtime
           /\ StatableUnder # {}
                => \E p, q \in StatableUnder :
                      /\ resp.oldest_date.day = fs[p].mtime
                      /\ resp.newest_date.day = fs[q].mtime

----------------------------------------------------------------------------
(* Log viewer: GET /logs *)

\* pageSize := 50
DefaultPageSize == 50
\* ps <= 500
MaxPageSize == 500

\* filepath.Join(logDir, currentFile), looked up in the directory
Lookup(files, file) == IF file \in Paths THEN files[file] ELSE Absent(file)

PageSize(pageSizeParam) ==
    IF pageSizeParam # <<>>
    THEN LET ps == Atoi(pageSizeParam)
         IN IF ps.ok /\ ps.n > 0 /\ ps.n <= MaxPageSize THEN ps.n ELSE DefaultPageSize
    ELSE DefaultPageSize

Page(pageParam) ==
    IF pageParam # <<>>
    THEN LET pg == Atoi(pageParam) IN IF pg.ok /\ pg.n > 0 THEN pg.n ELSE 1
    ELSE 1

\* The count with the comparison of the level left out: every entry counts.
CountLevelAll(logs, level) == Len(logs)

CountLevel(logs, level) == Cardinality({ i \in 1..Len(logs) : logs[i].Level = level })

\* The paginator with the slice ending one entry early.
PaginateShortSlice(filteredLogs, requested, pageSize) ==
    LET totalLogs == Len(filteredLogs)
        pages == (totalLogs + pageSize - 1) \div pageSize
        totalPages == IF pages < 1 THEN 1 ELSE pages
        page == IF requested > totalPages THEN totalPages ELSE requested
        startIdx == (page - 1) * pageSize
        endIdx == IF startIdx + pageSize - 1 > totalLogs THEN totalLogs
                  ELSE startIdx + pageSize - 1
    IN [TotalPages |-> totalPages, CurrentPage |-> page,
        Logs |-> SubSeq(filteredLogs, startIdx + 1, endIdx),
        HasPrevious |-> page > 1, HasNext |-> page < totalPages]

\* The paginator with the clamp of the page to totalPages left out.
PaginateNoClamp(filteredLogs, requested, pageSize) ==
    LET totalLogs == Len(filteredLogs)
        pages == (totalLogs + pageSize - 1) \div pageSize
        totalPages == IF pages < 1 THEN 1 ELSE pages
        startIdx == (requested - 1) * pageSize
        endIdx == IF startIdx + pageSize > totalLogs THEN totalLogs ELSE startIdx + pageSize
    IN [TotalPages |-> totalPages, CurrentPage |-> requested,
        Logs |-> SubSeq(filteredLogs, startIdx + 1, endIdx),
        HasPrevious |-> requested > 1, HasNext |-> requested < totalPages]

\* Index's paginator: filteredLogs[startIdx:endIdx] and the page's metadata
Paginate(filteredLogs, requested, pageSize) ==
    LET totalLogs == Len(filteredLogs)
        pages == (totalLogs + pageSize - 1) \div pageSize
        totalPages == IF pages < 1 THEN 1 ELSE pages
        page == IF requested > totalPages THEN totalPages ELSE requested
        startIdx == (page - 1) * pageSize
        endIdx == IF startIdx + pageSize > totalLogs THEN totalLogs ELSE startIdx + pageSize
    IN [TotalPages |-> totalPages, CurrentPage |-> page,
        Logs |-> SubSeq(filteredLogs, startIdx + 1, endIdx),
        HasPrevious |-> page > 1, HasNext |-> page < totalPages]

\* json.Marshal
Marshal(v) == [json |-> v]

TextResponse(status, body) == [kind |-> "view", status |-> status, body |-> body]

\* LogController.Index once getLogFiles has returned found, on a query q =
\* [file, date_from, date_to, page_size, page]; templateOk:
\* templates/log-viewer.html parses and executes
IndexFound(found, files, q, templateOk) ==
    IF found.err THEN TextResponse(500, "Error reading log directory")
    ELSE IF Len(found.logFiles) = 0 THEN TextResponse(404, "No log files found")
    ELSE LET currentFile == IF q.file = "" THEN found.logFiles[1] ELSE q.file
             pageSize == PageSize(q.page_size)
             page == Page(q.page)
             parsed == parseLogFile(Lookup(files, currentFile))
         IN IF parsed.err THEN TextResponse(500, "Error reading log file")
            ELSE LET filteredLogs == filterLogsByDate(parsed.logs, q.date_from, q.date_to)
                     pg == Paginate(filteredLogs, page, pageSize)
                 IN IF ~templateOk THEN TextResponse(500, "Error loading template")
                    ELSE [kind |-> "view", status |-> 200,
                          data |-> [LogFiles |-> found.logFiles,
                                    CurrentFile |-> currentFile,
                                    Logs |-> pg.Logs,
                                    LogsJSON |-> Marshal(pg.Logs),
                                    TotalLogs |-> Len(filteredLogs),
                                    ErrorCount |-> CountLevel(filteredLogs, "error"),
                                    InfoCount |-> CountLevel(filteredLogs, "info"),
                                    CurrentPage |-> pg.CurrentPage,
                                    TotalPages |-> pg.TotalPages,
                                    PageSize |-> pageSize,
                                    HasPrevious |-> pg.HasPrevious,
                                    HasNext |-> pg.HasNext]]

IndexResponse(files, q, templateOk) == IndexFound(getLogFiles(files), files, q, templateOk)

----------------------------------------------------------------------------
(* The viewer asked for pages of a log file *)

\* what a line of the viewed file may be; its message is its line number
ViewLineShapes ==
    { Line("json", 80, RFC3339Str(15, 36000, 0), "ERROR", 0),
      Line("json", 80, RFC3339Str(17, 0, 0), "Warn", 0),
      Line("json", 80, DisplayStr(16, 0, 0), "", 0),
      Line("bad", 20, EmptyStr, "", 0) }

ViewLineSeqs ==
    UNION { { [i \in 1..n |-> [f[i] EXCEPT !.msg = i]] : f \in [1..n -> ViewLineShapes] }
            : n \in 0..MaxViewLines }

\* a.log with some content beside sub/b.log and z.txt; a directory with no log
\* file; one with a.log alone; one with a subdirectory that cannot be read; no
\* directory
ViewTrees ==
    { Tree(File(0, TRUE, TRUE, TRUE, ls),
           <<Dir(TRUE), File(0, TRUE, TRUE, TRUE, StockLines("sub/b.log"))>>,
           File(0, TRUE, TRUE, TRUE, StockLines("z.txt"))) : ls \in ViewLineSeqs }
    \cup { Tree(Absent("a.log"), <<Absent("sub"), Absent("sub/b.log")>>,
                File(0, TRUE, TRUE, TRUE, StockLines("z.txt"))),
           Tree(File(0, TRUE, TRUE, TRUE, StockLines("a.log")),
                <<Absent("sub"), Absent("sub/b.log")>>, Absent("z.txt")),
           Tree(File(0, TRUE, TRUE, TRUE, StockLines("a.log")),
                <<Dir(FALSE), File(0, TRUE, TRUE, TRUE, StockLines("sub/b.log"))>>,
                Absent("z.txt")) }
    \cup BrokenRoots

\* the query strings of a request
Queries ==
    [ file : {"", "a.log", "b.log"},
      date_from : {EmptyStr, DateStr(16)},
      date_to : {EmptyStr, TextStr},
      page_size : { <<>>, <<"1">>, <<"2">>, <<"5", "0", "1">> },
      page : { <<>>, <<"0">>, <<"2">>, <<"3">> } ]

InitView ==
    /\ fs \in ViewTrees
    /\ now = 0
    /\ req = [op |-> "none"]
    /\ resp = NoResp
    /\ trail = <<>>
    /\ db = <<>>

\* GET /logs?file=..&date_from=..&date_to=..&page_size=..&page=..
Index(q, templateOk) ==
    /\ req.op = "none"
    /\ req' = [op |-> "view", query |-> q]
    /\ resp' = IndexResponse(fs, q, templateOk)
    /\ UNCHANGED <<fs, now, trail, db>>

\* the response is written out and the connection is free for the next request
Reply ==
    /\ req.op = "view"
    /\ req' = [op |-> "none"]
    /\ resp' = NoResp
    /\ UNCHANGED <<fs, now, trail, db>>

NextView ==
    \/ \E q \in Queries, templateOk \in BOOLEAN : Index(q, templateOk)
    \/ Reply

SpecView == InitView /\ [][NextView]_vars

Viewed == resp.kind = "view" /\ resp.status = 200

\* strconv.Itoa, for the page parameter of a request
RECURSIVE Itoa(_)
Itoa(n) == IF n < 10 THEN <<Digits[n + 1]>> ELSE Itoa(n \div 10) \o <<Digits[(n % 10) + 1]>>

\* the entries of the viewed file that pass the request's date filter
FilteredOf(q) ==
    filterLogsByDate(
        parseLogFile(Lookup(fs, IF q.file = "" THEN getLogFiles(fs).logFiles[1] ELSE q.file)).logs,
        q.date_from, q.date_to)

\* the slices of the views of pages 1..k of the request, one after the other
RECURSIVE PagesUpTo(_, _)
PagesUpTo(q, k) ==
    IF k = 0 THEN <<>>
    ELSE PagesUpTo(q, k - 1) \o IndexResponse(fs, [q EXCEPT !.page = Itoa(k)], TRUE).data.Logs

\* C1: the slices the viewer returns for page 1, 2, .., totalPages of a
\* request, one after the other, are the filtered entries, in order, each once.
C1_PagesReconstructFiltered ==
    Viewed => /\ resp.data.PageSize \in 1..MaxPageSize
              /\ PagesUpTo(req.query, resp.data.TotalPages) = FilteredOf(req.query)

\* three entries viewed two to a page: two pages, the second with one entry
C1_Witness ==
    /\ Viewed
    /\ resp.data.PageSize = 2
    /\ resp.data.TotalLogs = 3
    /\ resp.data.TotalPages = 2
    /\ resp.data.CurrentPage = 2
    /\ Len(resp.data.Logs) = 1

\* the least k with k * d >= n
Ceil(n, d) == CHOOSE k \in 0..n : k * d >= n /\ (k = 0 \/ (k - 1) * d < n)
Max(a, b) == IF a >= b THEN a ELSE b
Min(a, b) == IF a <= b THEN a ELSE b

\* the page a request asks for, when it asks for one that is at least 1
AsksPage(q) == Atoi(q.page).ok /\ Atoi(q.page).n >= 1
AskedPage(q) == Atoi(q.page).n

\* C17: for T filtered entries, effective page size P and requested page
\* p >= 1 the view reports TotalPages = max(1, ceil(T / P)), CurrentPage =
\* min(p, TotalPages), HasPrevious = (CurrentPage > 1) and HasNext =
\* (CurrentPage < TotalPages); a request past the last page is answered with
\* the last page, not with an error or an empty page.
C17_PaginatorMetadata ==
    (req.op = "view" /\ AsksPage(req.query))
        => LET T == Len(FilteredOf(req.query))
               P == PageSize(req.query.page_size)
               p == AskedPage(req.query)
               d == resp.data
           IN /\ Viewed =>
                    /\ d.TotalLogs = T
                    /\ d.TotalPages = Max(1, Ceil(T, P))
                    /\ d.CurrentPage = Min(p, d.TotalPages)
                    /\ d.CurrentPage \in 1..d.TotalPages
                    /\ d.HasPrevious = (d.CurrentPage > 1)
                    /\ d.HasNext = (d.CurrentPage < d.TotalPages)
                    /\ p > d.TotalPages =>
                          /\ d.Logs = SubSeq(FilteredOf(req.query), (d.TotalPages - 1) * P + 1, T)
                          /\ T > 0 => d.Logs # <<>>
              /\ IndexResponse(fs, [req.query EXCEPT !.page = <<"1">>], TRUE).status = 200
                    => IndexResponse(fs, req.query, TRUE).status = 200

\* page 3 asked of three entries two to a page: the second, last page is shown
C17_Witness ==
    /\ Viewed
    /\ req.query.page = <<"3">>
    /\ resp.data.PageSize = 2
    /\ resp.data.TotalLogs = 3
    /\ resp.data.TotalPages = 2
    /\ resp.data.CurrentPage = 2
    /\ resp.data.HasPrevious
    /\ ~resp.data.HasNext
    /\ Len(resp.data.Logs) = 1

\* the entries of a sequence that have a level
RECURSIVE WithLevel(_, _)
WithLevel(logs, level) ==
    IF logs = <<>> THEN 0
    ELSE (IF Head(logs).Level = level THEN 1 ELSE 0) + WithLevel(Tail(logs), level)

\* the three counts of a view
Counts(d) == << d.ErrorCount, d.InfoCount, d.TotalLogs >>

\* the request with another page and page size
Repaged(q, page, pageSize) == [q EXCEPT !.page = page, !.page_size = pageSize]

\* C22: the counts of a view are taken over the filtered entries before they
\* are paginated: ErrorCount those with level "error", InfoCount those with
\* level "info", TotalLogs all of them; ErrorCount + InfoCount <= TotalLogs,
\* and none of the three changes when only page or page_size changes.
C22_CountsOverFiltered ==
    Viewed
        => LET d == resp.data
               filtered == FilteredOf(req.query)
           IN /\ d.ErrorCount = WithLevel(filtered, "error")
              /\ d.InfoCount = WithLevel(filtered, "info")
              /\ d.TotalLogs = Len(filtered)
              /\ d.ErrorCount + d.InfoCount <= d.TotalLogs
              /\ \A page \in { q.page : q \in Queries },
                    pageSize \in { q.page_size : q \in Queries } :
                    Counts(IndexResponse(fs, Repaged(req.query, page, pageSize), TRUE).data)
                        = Counts(d)

\* a page of one entry out of three filtered ones: an error, a warning and an
\* entry without level
C22_Witness ==
    /\ Viewed
    /\ resp.data.PageSize = 1
    /\ Len(resp.data.Logs) = 1
    /\ resp.data.TotalLogs = 3
    /\ resp.data.ErrorCount = 1
    /\ resp.data.InfoCount = 1

Range(seq) == { seq[i] : i \in 1..Len(seq) }

\* the file of the directory that Discovery lists under a name
ListedAs(name) == CHOOSE p \in LogFilePaths : Name(p) = name

\* C29: every name that Discovery returns, that of a log file in a nested
\* subdirectory and the default newest one included, can be the file of a View:
\* the file is opened and parsed (no 500 "Error reading log file") and the
\* entries shown are those of the file that was listed.
C29_ListedFilesViewable ==
    (req.op = "view" /\ RootReadable /\ AllReadable /\ LogFilePaths # {})
        => LET found == getLogFiles(fs).logFiles
               name == IF req.query.file = "" THEN found[1] ELSE req.query.file
           IN name \in Range(found)
                => /\ ~(resp.status = 500 /\ resp.body = "Error reading log file")
                   /\ Viewed
                        => resp.data.TotalLogs
                             = Len(filterLogsByDate(parseLogFile(fs[ListedAs(name)]).logs,
                                                    req.query.date_from, req.query.date_to))

\* C18: the effective page size is 50 when page_size is absent or not a
\* positive integer, and the requested value clamped to (0, 500] otherwise (a
\* page_size above 500 yields 500); it is always in 1..500.
C18_PageSizeClamped ==
    Viewed => LET ps == Atoi(req.query.page_size)
              IN /\ resp.data.PageSize \in 1..MaxPageSize
                 /\ resp.data.PageSize = IF ps.ok /\ ps.n > 0 THEN Min(ps.n, MaxPageSize)
                                         ELSE DefaultPageSize

----------------------------------------------------------------------------
(* Exporter: GET /logs/export *)

\* longest log file (lines) an export is asked of
MaxExportLines == 3

\* json.Marshal of a LogEntry: additional_info is tagged omitempty, which
\* leaves out a map that is nil or has no key
MarshalEntry(e) ==
    [timestamp |-> JString(e.Timestamp),
     level |-> JString(e.Level),
     message |-> JString(e.Message),
     additional_info |-> IF e.AdditionalInfo.nil \/ e.AdditionalInfo.fields = {}
                         THEN InfoAbsent
                         ELSE MarshalMap(e.AdditionalInfo)]

\* json.Unmarshal of an object into a LogEntry
UnmarshalEntry(j) ==
    WithAdditionalInfo(LogEntry(j.timestamp.v, j.level.v, j.message.v),
                       UnmarshalMap(j.additional_info))

\* fmt.Sprintf("%q", s), and fmt.Sprintf("%v", a): the text of a value, which
\* for a string is the string and for a float64 its digits
Quote(s) == [quoted |-> s]
SprintV(a) == [printed |-> a.go, v |-> a.v]

HasKey(m, k) == \E f \in m.fields : f[1] = k
Get(m, k) == (CHOOSE f \in m.fields : f[1] = k)[2]

\* The line of the CSV export with the action left empty.
CsvLineNoAction(log) ==
    LET additionalInfoStr == IF ~log.AdditionalInfo.nil
                             THEN [text |-> MarshalMap(log.AdditionalInfo)]
                             ELSE [text |-> ""]
    IN << Quote(log.Timestamp), Quote(log.Level), Quote(log.Message),
          Quote(SprintV(GoString(""))), Quote(additionalInfoStr) >>

\* one line of the CSV export
CsvLine(log) ==
    LET additionalInfoStr == IF ~log.AdditionalInfo.nil
                             THEN [text |-> MarshalMap(log.AdditionalInfo)]
                             ELSE [text |-> ""]
        action == IF ~log.AdditionalInfo.nil /\ HasKey(log.AdditionalInfo, "action")
                  THEN SprintV(Get(log.AdditionalInfo, "action"))
                  ELSE SprintV(GoString(""))
    IN << Quote(log.Timestamp), Quote(log.Level), Quote(log.Message),
          Quote(action), Quote(additionalInfoStr) >>

\* c.Status(status).SendString(body); opened: the paths handed to os.Open
ExportText(status, body, opened) ==
    [kind |-> "export", status |-> status, body |-> body, opened |-> opened]

\* Export once a file is named: parse, filter, and the payload of the format
ExportFile(files, q, clock) ==
    LET parsed == parseLogFile(Lookup(files, q.file))
        opened == << q.file >>
    IN IF parsed.err THEN ExportText(500, "Error reading log file", opened)
       ELSE LET filteredLogs == filterLogsByDate(parsed.logs, q.date_from, q.date_to)
            IN IF q.format = "json"
               THEN [kind |-> "export", status |-> 200, opened |-> opened,
                     contentType |-> "application/json",
                     disposition |-> "attachment; filename=\"logs-export.json\"",
                     body |-> [exported_at |-> JString(RFC3339Str(clock, 0, 0)),
                               file |-> JString(q.file),
                               total_logs |-> JNumber(Len(filteredLogs)),
                               logs |-> [i \in 1..Len(filteredLogs) |->
                                            MarshalEntry(filteredLogs[i])]]]
               ELSE IF q.format = "csv"
               THEN [kind |-> "export", status |-> 200, opened |-> opened,
                     contentType |-> "text/csv",
                     disposition |-> "attachment; filename=\"logs-export.csv\"",
                     body |-> [header |-> "Timestamp,Level,Message,ActionField,AdditionalInfo",
                               rows |-> [i \in 1..Len(filteredLogs) |->
                                            CsvLine(filteredLogs[i])]]]
               ELSE ExportText(400, "Invalid export format. Use 'json' or 'csv'", opened)

\* Export with the test for a missing file parameter left out.
ExportResponseNoFileCheck(files, q, clock) ==
    LET found == getLogFiles(files)
    IN IF found.err THEN ExportText(500, "Error reading log directory", <<>>)
       ELSE ExportFile(files, q, clock)

\* LogController.Export once getLogFiles has returned found, on a query q =
\* [file, date_from, date_to, format] at the time clock
ExportFound(found, files, q, clock) ==
    IF found.err THEN ExportText(500, "Error reading log directory", <<>>)
    ELSE IF q.file = "" \/ Len(found.logFiles) = 0
    THEN ExportText(400, "No log file specified", <<>>)
    ELSE ExportFile(files, q, clock)

ExportResponse(files, q, clock) == ExportFound(getLogFiles(files), files, q, clock)

----------------------------------------------------------------------------
(* Exports asked of a log directory *)

\* what a line of the exported file may be; its message is its line number
ExportLineShapes ==
    { Line("json", 80, RFC3339Str(15, 36000, 0), "ERROR", 0),
      WithInfo(Line("json", 80, RFC3339Str(16, 0, 0), "", 0),
               InfoObject({ <<"action", JString("login")>>, <<"user", JString("bob")>> })),
      WithInfo(Line("json", 80, RFC3339Str(17, 0, 0), "info", 0),
               InfoObject({ <<"action", JNumber(7)>> })),
      WithInfo(Line("json", 80, TextStr, "Warn", 0), InfoObject({})),
      Line("bad", 20, EmptyStr, "", 0) }

ExportLineSeqs ==
    UNION { { [i \in 1..n |-> [f[i] EXCEPT !.msg = i]] : f \in [1..n -> ExportLineShapes] }
            : n \in 0..MaxExportLines }

\* a.log with some content beside sub/b.log and z.txt; a.log missing, not
\* readable, or with a line too long to scan; a directory with no log file; one
\* with a subdirectory that cannot be read; no directory
ExportTrees ==
    { Tree(File(0, TRUE, TRUE, TRUE, ls),
           <<Dir(TRUE), File(0, TRUE, TRUE, TRUE, StockLines("sub/b.log"))>>,
           File(0, TRUE, TRUE, TRUE, StockLines("z.txt"))) : ls \in ExportLineSeqs }
    \cup { Tree(a, <<Dir(TRUE), File(0, TRUE, TRUE, TRUE, StockLines("sub/b.log"))>>,
                Absent("z.txt")) :
             a \in { Absent("a.log"), File(0, TRUE, TRUE, FALSE, StockLines("a.log")),
                     File(0, TRUE, TRUE, TRUE,
                          << Line("json", MaxScanTokenSize, RFC3339Str(15, 0, 0), "info", 1) >>) } }
    \cup { Tree(Absent("a.log"), <<Absent("sub"), Absent("sub/b.log")>>, z) :
             z \in { Absent("z.txt"), File(0, TRUE, TRUE, TRUE, StockLines("z.txt")) } }
    \cup { Tree(File(0, TRUE, TRUE, TRUE, StockLines("a.log")),
                <<Dir(FALSE), File(0, TRUE, TRUE, TRUE, StockLines("sub/b.log"))>>,
                Absent("z.txt")) }
    \cup BrokenRoots

\* the query strings of an export request
ExportQueries ==
    [ file : {"", "a.log", "z.txt"},
      date_from : {EmptyStr, DateStr(16)},
      date_to : {EmptyStr, TextStr},
      format : {"json", "csv", "", "xml"} ]

InitExport ==
    /\ fs \in ExportTrees
    /\ now = FirstDay
    /\ req = [op |-> "none"]
    /\ resp = NoResp
    /\ trail = <<>>
    /\ db = <<>>

\* GET /logs/export?file=..&date_from=..&date_to=..&format=..
Export(q) ==
    /\ req.op = "none"
    /\ req' = [op |-> "export", query |-> q]
    /\ resp' = ExportResponse(fs, q, now)
    /\ UNCHANGED <<fs, now, trail, db>>

SpecExport == InitExport /\ [][\E q \in ExportQueries : Export(q)]_vars

Exported == req.op = "export" /\ resp.kind = "export"

\* C12: an Export request that names a file and whose format is neither
\* "json" nor "csv" (the empty format included) is answered with the
\* unsupported-format client error (400), never with a server fault (500),
\* whether or not the named file exists or can be read.
C12_UnsupportedFormatIsClientError ==
    (Exported /\ req.query.file # "" /\ req.query.format \notin {"json", "csv"})
        => /\ resp.status = 400
           /\ resp.status # 500

\* C13: an Export request that names no file is answered with the
\* missing-parameter client error (400) and opens no log file, whatever
\* date_from, date_to and format are; a directory that can be read and holds no
\* log file is no server fault.
C13_NoFileIsClientError ==
    (Exported /\ req.query.file = "")
        => /\ resp.opened = <<>>
           /\ (RootReadable /\ AllReadable)
                => /\ resp.status = 400
                   /\ resp.body = "No log file specified"
           /\ resp.status = 500 => ~(RootReadable /\ AllReadable)

\* no file named in a request on a directory that holds no log file
C13_Witness ==
    /\ Exported
    /\ req.query.file = ""
    /\ req.query.format = "xml"
    /\ req.query.date_from = DateStr(16)
    /\ RootReadable
    /\ LogFilePaths = {}
    /\ resp.status = 400
    /\ resp.opened = <<>>

\* the entries of the exported file that pass the request's date filter
ExportFiltered(q) ==
    filterLogsByDate(parseLogFile(Lookup(fs, q.file)).logs, q.date_from, q.date_to)

\* C14: the JSON export has total_logs equal to the number of filtered entries
\* and a logs array that, decoded again, is the filtered entries in order:
\* timestamp, level, message and the additional_info mapping.
C14_JsonRoundTrip ==
    (Exported /\ resp.status = 200 /\ req.query.format = "json")
        => LET filtered == ExportFiltered(req.query)
           IN /\ resp.body.total_logs = JNumber(Len(filtered))
              /\ Len(resp.body.logs) = Len(filtered)
              /\ \A i \in 1..Len(filtered) :
                    UnmarshalEntry(resp.body.logs[i]) = filtered[i]

\* the text of the value under key "action" of an entry's mapping; the empty
\* text when the mapping is nil or has no such key
ActionOf(e) ==
    IF \E f \in e.AdditionalInfo.fields : f[1] = "action"
    THEN LET a == (CHOOSE f \in e.AdditionalInfo.fields : f[1] = "action")[2]
         IN [printed |-> a.go, v |-> a.v]
    ELSE [printed |-> "string", v |-> ""]

\* C23: the CSV payload is the header row
\* Timestamp,Level,Message,ActionField,AdditionalInfo followed by exactly one
\* row per filtered entry, in filtered order; a row's ActionField is the value
\* under key "action" of the entry's mapping when the key is there, and empty
\* otherwise.
C23_CsvShape ==
    (Exported /\ resp.status = 200 /\ req.query.format = "csv")
        => LET filtered == ExportFiltered(req.query)
               rows == resp.body.rows
           IN /\ resp.body.header = "Timestamp,Level,Message,ActionField,AdditionalInfo"
              /\ Len(rows) = Len(filtered)
              /\ \A i \in 1..Len(filtered) :
                    /\ Len(rows[i]) = 5
                    /\ rows[i][1].quoted = filtered[i].Timestamp
                    /\ rows[i][2].quoted = filtered[i].Level
                    /\ rows[i][3].quoted = filtered[i].Message
                    /\ rows[i][4].quoted.printed = ActionOf(filtered[i]).printed
                    /\ rows[i][4].quoted.v = ActionOf(filtered[i]).v

\* a CSV export of two entries: one with action "login", one without mapping
C23_Witness ==
    /\ Exported
    /\ resp.status = 200
    /\ req.query.format = "csv"
    /\ Len(resp.body.rows) = 2
    /\ resp.body.rows[1][4].quoted.printed = "string"
    /\ resp.body.rows[1][4].quoted.v = "login"
    /\ ExportFiltered(req.query)[2].AdditionalInfo.nil
    /\ resp.body.rows[2][4].quoted.printed = "string"
    /\ resp.body.rows[2][4].quoted.v = ""

\* C28: the file that Export (or View) opens is always one of the files
\* Discovery returns for the log directory; no value of the file parameter
\* makes the engine read a file outside that set.
C28_OpensOnlyDiscoveredFiles ==
    Exported => \A i \in 1..Len(resp.opened) :
                   CanOpen(Lookup(fs, resp.opened[i]))
                       => resp.opened[i] \in Range(getLogFiles(fs).logFiles)

----------------------------------------------------------------------------
(* A cleanup run and a reader at work on the directory at the same time *)

\* os.ReadDir(d): the entries of a directory that are there, sorted by name
Children(files, d) == SelectSeq(WalkOrder, LAMBDA p : Parent(p) = d /\ files[p].exists)

\* filepath.WalkDir's first step: lstat and ReadDir of the root; the entries
\* read are those the walk will visit
WalkBegin(files) ==
    IF ~files[Root].exists \/ ~files[Root].openOk
    THEN [queue |-> <<>>, err |-> TRUE]
    ELSE [queue |-> Children(files, Root), err |-> FALSE]

\* WalkDir at a directory: the callback returns nil, the directory is read and
\* its entries come next; a failed read is handed to the callback, which
\* returns it
WalkInto(files, queue) ==
    LET d == Head(queue)
    IN IF ~files[d].exists \/ ~files[d].openOk
       THEN [queue |-> <<>>, err |-> TRUE]
       ELSE [queue |-> Children(files, d) \o Tail(queue), err |-> FALSE]

\* lstat of an entry that was listed: it fails when the file is gone by now
Lstat(files, p) == IF files[p].exists THEN files[p] ELSE [files[p] EXCEPT !.statOk = FALSE]

\* getLogFiles' callback on a file
DiscoverVisit(logFiles, p) ==
    IF HasSuffix(Chars(Name(p)), <<".", "l", "o", "g">>) THEN Append(logFiles, Name(p))
    ELSE logFiles

\* the requests a reader makes
ViewQuery(file) ==
    [file |-> file, date_from |-> EmptyStr, date_to |-> EmptyStr, page_size |-> <<>>,
     page |-> <<>>]
ExportQuery(file) ==
    [file |-> file, date_from |-> EmptyStr, date_to |-> EmptyStr, format |-> "json"]

\* a handler in flight: where it is, the entries its walk has still to visit,
\* and its locals
Reader(kind, query) ==
    [kind |-> kind, query |-> query, pc |-> "start", queue |-> <<>>, err |-> FALSE,
     stats |-> StatsState, logFiles |-> <<>>,
     found |-> [logFiles |-> <<>>, err |-> FALSE], openOk |-> FALSE]
Cleaner(days, cutoffDate) ==
    [pc |-> "start", queue |-> <<>>, err |-> FALSE, days |-> days, cutoff |-> cutoffDate,
     deletedCount |-> 0, totalSize |-> 0, removed |-> {}]

Readers ==
    { Reader("stats", ViewQuery("")), Reader("view", ViewQuery("")),
      Reader("view", ViewQuery("a.log")), Reader("export", ExportQuery("a.log")) }

\* a.log old, old and not removable, or fresh; sub/b.log old, fresh or not
\* there; z.txt old or not there; everything readable
RaceTrees ==
    { Tree(a, sub, z) :
        a \in { File(0, TRUE, TRUE, TRUE, StockLines("a.log")),
                File(0, TRUE, FALSE, TRUE, StockLines("a.log")),
                File(DefaultDays, TRUE, TRUE, TRUE, StockLines("a.log")) },
        sub \in { <<Absent("sub"), Absent("sub/b.log")>>,
                  <<Dir(TRUE), File(0, TRUE, TRUE, TRUE, StockLines("sub/b.log"))>>,
                  <<Dir(TRUE), File(DefaultDays, TRUE, TRUE, TRUE, StockLines("sub/b.log"))>> },
        z \in { Absent("z.txt"), File(0, TRUE, TRUE, TRUE, StockLines("z.txt")) } }

InitRace ==
    /\ fs \in RaceTrees
    /\ now = FirstDay
    /\ req \in { [op |-> "race", cleaner |-> Cleaner(DefaultDays, FirstDay - DefaultDays),
                  reader |-> r] : r \in Readers }
    /\ resp = [kind |-> "race", cleaner |-> NoResp, reader |-> NoResp]
    /\ trail = << [cutoff |-> FirstDay - DefaultDays, before |-> fs] >>
    /\ db = <<>>

\* the cleaner's locals as the state of its walk
CleanerState(c, files) ==
    [fs |-> files, deletedCount |-> c.deletedCount, totalSize |-> c.totalSize,
     removed |-> c.removed, skipped |-> {}, err |-> c.err]

\* CleanupLogs: filepath.WalkDir begins
CleanerStart ==
    /\ req.op = "race"
    /\ req.cleaner.pc = "start"
    /\ LET w == WalkBegin(fs)
       IN req' = [req EXCEPT !.cleaner.pc = "walk", !.cleaner.queue = w.queue,
                             !.cleaner.err = w.err]
    /\ UNCHANGED <<fs, now, resp, trail, db>>

\* CleanupLogs: the walk reaches its next entry
CleanerVisit ==
    /\ req.op = "race"
    /\ req.cleaner.pc = "walk"
    /\ ~req.cleaner.err
    /\ req.cleaner.queue # <<>>
    /\ LET c == req.cleaner
           p == Head(c.queue)
       IN IF IsDirPath(p)
          THEN /\ req' = [req EXCEPT !.cleaner.queue = WalkInto(fs, c.queue).queue,
                                     !.cleaner.err = WalkInto(fs, c.queue).err]
               /\ fs' = fs
          ELSE LET seen == [fs EXCEPT ![p] = Lstat(fs, p)]
                   st == CleanupVisit(CleanerState(c, seen), p, c.cutoff)
               IN /\ req' = [req EXCEPT !.cleaner.queue = Tail(c.queue),
                                        !.cleaner.deletedCount = st.deletedCount,
                                        !.cleaner.totalSize = st.totalSize,
                                        !.cleaner.removed = st.removed]
                  /\ fs' = IF fs[p].exists THEN st.fs ELSE fs
    /\ UNCHANGED <<now, resp, trail, db>>

\* CleanupLogs: the walk has returned and the response is written
CleanerFinish ==
    /\ req.op = "race"
    /\ req.cleaner.pc = "walk"
    /\ req.cleaner.err \/ req.cleaner.queue = <<>>
    /\ req' = [req EXCEPT !.cleaner.pc = "done"]
    /\ resp' = [resp EXCEPT !.cleaner = CleanupResponse(CleanerState(req.cleaner, fs),
                                                        req.cleaner.cutoff, req.cleaner.days)]
    /\ UNCHANGED <<fs, now, trail, db>>

\* Index, Export (in getLogFiles) or GetLogStats: filepath.WalkDir begins
ReaderStart ==
    /\ req.op = "race"
    /\ req.reader.pc = "start"
    /\ LET w == WalkBegin(fs)
       IN req' = [req EXCEPT !.reader.pc = "walk", !.reader.queue = w.queue,
                             !.reader.err = w.err]
    /\ UNCHANGED <<fs, now, resp, trail, db>>

\* the reader's walk reaches its next entry
ReaderVisit ==
    /\ req.op = "race"
    /\ req.reader.pc = "walk"
    /\ ~req.reader.err
    /\ req.reader.queue # <<>>
    /\ LET r == req.reader
           p == Head(r.queue)
       IN IF IsDirPath(p)
          THEN req' = [req EXCEPT !.reader.queue = WalkInto(fs, r.queue).queue,
                                  !.reader.err = WalkInto(fs, r.queue).err]
          ELSE IF r.kind = "stats"
          THEN LET st == StatsVisit(r.stats, Lstat(fs, p))
               IN req' = [req EXCEPT !.reader.queue = Tail(r.queue),
                                     !.reader.stats = st,
                                     !.reader.err = st.err]
          ELSE req' = [req EXCEPT !.reader.queue = Tail(r.queue),
                                  !.reader.logFiles = DiscoverVisit(r.logFiles, p)]
    /\ UNCHANGED <<fs, now, resp, trail, db>>

\* the reader's walk has returned: GetLogStats writes its response; getLogFiles
\* sorts the names and returns to Index or Export
ReaderWalked ==
    /\ req.op = "race"
    /\ req.reader.pc = "walk"
    /\ req.reader.err \/ req.reader.queue = <<>>
    /\ LET r == req.reader
       IN IF r.kind = "stats"
          THEN /\ req' = [req EXCEPT !.reader.pc = "done"]
               /\ resp' = [resp EXCEPT !.reader = StatsResponse([r.stats EXCEPT !.err = r.err])]
          ELSE /\ req' = [req EXCEPT !.reader.pc = "parse",
                                     !.reader.found =
                                        IF r.err THEN [logFiles |-> <<>>, err |-> TRUE]
                                        ELSE [logFiles |-> SortDescending(r.logFiles),
                                              err |-> FALSE]]
               /\ resp' = resp
    /\ UNCHANGED <<fs, now, trail, db>>

\* the file Index or Export goes on to open
Chosen(r) ==
    IF r.query.file # "" THEN r.query.file
    ELSE IF r.found.logFiles # <<>> THEN r.found.logFiles[1] ELSE ""

\* Index or Export after getLogFiles: the file is opened and parsed, and the
\* response is written
ReaderParse ==
    /\ req.op = "race"
    /\ req.reader.pc = "parse"
    /\ LET r == req.reader
       IN /\ req' = [req EXCEPT !.reader.pc = "done",
                                !.reader.openOk = CanOpen(Lookup(fs, Chosen(r)))]
          /\ resp' = [resp EXCEPT !.reader =
                        IF r.kind = "view" THEN IndexFound(r.found, fs, r.query, TRUE)
                        ELSE ExportFound(r.found, fs, r.query, now)]
    /\ UNCHANGED <<fs, now, trail, db>>

CleanerNext == CleanerStart \/ CleanerVisit \/ CleanerFinish
ReaderNext == ReaderStart \/ ReaderVisit \/ ReaderWalked \/ ReaderParse
NextRace == CleanerNext \/ ReaderNext

SpecRace == InitRace /\ [][NextRace]_vars

\* each request is served by a goroutine of its own, which the Go scheduler
\* keeps running
SpecRaceFair == SpecRace /\ WF_vars(CleanerNext) /\ WF_vars(ReaderNext)

CleanerDone == req.op = "race" /\ req.cleaner.pc = "done"
ReaderDone == req.op = "race" /\ req.reader.pc = "done"

\* the entries of the file the reader chose, as the file was
WholeFile(r) == parseLogFile(Lookup(trail[1].before, Chosen(r))).logs

\* Every finished operation of the race has a defined outcome: the walks of the
\* cleaner, of Stats and of Discovery succeed; the reader answers with the
\* whole of the chosen file, or with the read error when it cannot open it.
RaceOutcomesDefined ==
    /\ CleanerDone => (resp.cleaner.status = 200 /\ resp.cleaner.success)
    /\ ReaderDone =>
          LET r == req.reader
              out == resp.reader
          IN CASE r.kind = "stats" ->
                    /\ out.status = 200
                    /\ out.success
                    /\ out.total_files
                         <= Cardinality({ p \in Files : trail[1].before[p].exists })
                    /\ out.total_files >= Cardinality({ p \in Files : fs[p].exists })
                    /\ out.total_size_mb.num
                         >= SumSizes(fs, { p \in Files : fs[p].exists })
                    /\ out.total_size_mb.num
                         <= SumSizes(trail[1].before,
                                     { p \in Files : trail[1].before[p].exists })
               [] r.kind = "view" ->
                    /\ ~r.found.err
                    /\ r.found.logFiles = <<>> => out.status = 404
                    /\ (r.found.logFiles # <<>> /\ ~r.openOk)
                         => (out.status = 500 /\ out.body = "Error reading log file")
                    /\ (r.found.logFiles # <<>> /\ r.openOk)
                         => /\ out.status = 200
                            /\ out.data.TotalLogs = Len(WholeFile(r))
                            /\ out.data.Logs = WholeFile(r)
               [] OTHER ->
                    /\ ~r.found.err
                    /\ r.found.logFiles = <<>> => out.status = 400
                    /\ (r.found.logFiles # <<>> /\ ~r.openOk)
                         => (out.status = 500 /\ out.body = "Error reading log file")
                    /\ (r.found.logFiles # <<>> /\ r.openOk)
                         => /\ out.status = 200
                            /\ out.body.total_logs = JNumber(Len(WholeFile(r)))
                            /\ Len(out.body.logs) = Len(WholeFile(r))

C11_WitnessStats ==
    /\ ReaderDone
    /\ req.reader.kind = "stats"
    /\ resp.reader.success
    /\ resp.reader.total_files = 1
    /\ resp.reader.total_size_mb.num = 0
    /\ trail[1].before["a.log"].exists

----------------------------------------------------------------------------
(* Requests of every kind served one after the other *)

\* getLogFiles(logDir) called on its own
ListLogFiles ==
    /\ req.op = "none"
    /\ req' = [op |-> "list"]
    /\ LET r == getLogFiles(fs)
       IN resp' = [kind |-> "discovered", logFiles |-> r.logFiles, err |-> r.err]
    /\ UNCHANGED <<fs, now, trail, db>>

\* the response is written out; nothing of the request is kept
Served ==
    /\ req.op # "none"
    /\ req' = [op |-> "none"]
    /\ resp' = NoResp
    /\ UNCHANGED <<fs, now, trail, db>>

MixedQueries == { ViewQuery(""), ViewQuery("a.log"), ViewQuery("b.log") }
MixedExports == { ExportQuery(""), ExportQuery("a.log") }

InitMixed ==
    /\ fs \in RetentionTrees \cup BrokenRoots
    /\ now = FirstDay
    /\ req = [op |-> "none"]
    /\ resp = NoResp
    /\ trail = <<>>
    /\ db = <<>>

NextMixed ==
    \/ \E q \in MixedQueries : Index(q, TRUE)
    \/ \E q \in MixedExports : Export(q)
    \/ GetLogStats
    \/ ListLogFiles
    \/ (req.op = "none" /\ CleanupLogs(<<>>))
    \/ Served

SpecMixed == InitMixed /\ [][NextMixed]_vars

ReadOnlyOps == { "list", "view", "export", "stats" }

----------------------------------------------------------------------------
(* Registration: POST /api/register *)

\* most registration requests served in a row
MaxRegistrations == 3

\* validate:"required,min=6" on Password
MinPassword == 6

\* the length of the passwords of the model
PasswordLen(password) == IF password = "x" THEN 1 ELSE 7

\* Bcrypt.HashPassword
HashPassword(password) == [bcrypt |-> password]

\* the bodies of the requests: two usernames, two e-mail addresses, a password
\* that passes validation and one that is too short
RegisterBodies ==
    [ username : {"alice", "bob"}, email : {"a@x.io", "b@x.io"}, password : {"secret1", "x"} ]

\* AuthRegisterRequest.Validate returns no error
Valid(body) == PasswordLen(body.password) >= MinPassword

\* db.Where("email = ?", ..).First(..) and db.Where("username = ?", ..).First(..)
\* return no error: a row is found
EmailExists(users, email) == \E i \in 1..Len(users) : users[i].Email = email
UsernameExists(users, username) == \E i \in 1..Len(users) : users[i].Username = username

\* models.User as Register fills it in; the table gives it the next id
User(id, body) ==
    [ID |-> id, Username |-> body.username, Email |-> body.email,
     Password |-> HashPassword(body.password), Status |-> FALSE]

\* db.Create(&user): the unique index on email refuses a second row with the
\* same address; there is no such index on username
Create(users, body) ==
    IF EmailExists(users, body.email) THEN [ok |-> FALSE, users |-> users]
    ELSE [ok |-> TRUE, users |-> Append(users, User(Len(users) + 1, body))]

RegisterReply(status, success, message) ==
    [kind |-> "register", status |-> status, success |-> success, message |-> message]

\* Register from db.Create on; tokenOk: jwtService.GenerateToken succeeds
RegisterCreate(users, body, tokenOk) ==
    LET made == Create(users, body)
    IN IF ~made.ok
       THEN [users |-> users, resp |-> RegisterReply(500, FALSE, "Failed to create user")]
       ELSE IF ~tokenOk
       THEN [users |-> made.users, resp |-> RegisterReply(500, FALSE, "Failed to generate token")]
       ELSE [users |-> made.users,
             resp |-> [kind |-> "register", status |-> 201, success |-> TRUE,
                       message |-> "User registered successfully",
                       user |-> made.users[Len(made.users)]]]

\* Register with the lookup of the username left out.
RegisterNoUsernameCheck(users, body, tokenOk) ==
    IF ~Valid(body) THEN [users |-> users, resp |-> RegisterReply(400, FALSE, "validation")]
    ELSE IF EmailExists(users, body.email)
    THEN [users |-> users,
          resp |-> RegisterReply(409, FALSE, "User with this email already exists")]
    ELSE RegisterCreate(users, body, tokenOk)

\* AuthController.Register on the table users: the table after it, and the
\* response
Register(users, body, tokenOk) ==
    IF ~Valid(body) THEN [users |-> users, resp |-> RegisterReply(400, FALSE, "validation")]
    ELSE IF EmailExists(users, body.email)
    THEN [users |-> users,
          resp |-> RegisterReply(409, FALSE, "User with this email already exists")]
    ELSE IF UsernameExists(users, body.username)
    THEN [users |-> users,
          resp |-> RegisterReply(409, FALSE, "User with this username already exists")]
    ELSE RegisterCreate(users, body, tokenOk)

----------------------------------------------------------------------------
(* Registration requests served one after the other *)

InitRegister ==
    /\ fs = EmptyFS
    /\ now = 0
    /\ req = [op |-> "none"]
    /\ resp = NoResp
    /\ trail = <<>>
    /\ db = <<>>

\* POST /api/register, served to its end; trail keeps what was asked and how
\* it was answered
RegisterCall(body, tokenOk) ==
    /\ Len(trail) < MaxRegistrations
    /\ LET r == Register(db, body, tokenOk)
       IN /\ db' = r.users
          /\ req' = [op |-> "register", body |-> body]
          /\ resp' = r.resp
          /\ trail' = Append(trail, [body |-> body, status |-> r.resp.status,
                                     success |-> r.resp.success,
                                     created |-> Len(r.users) - Len(db)])
    /\ UNCHANGED <<fs, now>>

SpecRegister ==
    InitRegister /\ [][\E body \in RegisterBodies, tokenOk \in BOOLEAN :
                          RegisterCall(body, tokenOk)]_vars

\* request j comes after request i, which succeeded, and has its e-mail
\* address or its username
Repeats(i, j) ==
    /\ i < j
    /\ trail[i].status = 201
    /\ \/ trail[j].body.email = trail[i].body.email
       \/ trail[j].body.username = trail[i].body.username

Rejected(j) == trail[j].status = 409 /\ ~trail[j].success /\ trail[j].created = 0

----------------------------------------------------------------------------
(* Registration requests served at the same time.  Each request runs
   Register in a goroutine of its own; the statements that reach the
   database (the two lookups and the insertion) are the steps that
   interleave. *)

\* requests in flight together
RegisterClients == 2

Clients == 1..RegisterClients

InitRegisterRace ==
    /\ fs = EmptyFS
    /\ now = 0
    /\ \E bodies \in [Clients -> RegisterBodies] :
           req = [op |-> "register",
                  clients |-> [c \in Clients |-> [body |-> bodies[c], pc |-> "email"]]]
    /\ resp = [kind |-> "register", replies |-> [c \in Clients |-> NoResp]]
    /\ trail = <<>>
    /\ db = <<>>

At(c, pc) == req.op = "register" /\ req.clients[c].pc = pc

Goto(c, pc) == req' = [req EXCEPT !.clients[c].pc = pc]

Answer(c, reply) ==
    /\ Goto(c, "done")
    /\ resp' = [resp EXCEPT !.replies[c] = reply]

\* Validate, then db.Where("email = ?", req.Email).First(&existingUser)
RegisterLookupEmail(c) ==
    /\ At(c, "email")
    /\ LET body == req.clients[c].body
       IN IF ~Valid(body) THEN Answer(c, RegisterReply(400, FALSE, "validation"))
          ELSE IF EmailExists(db, body.email)
          THEN Answer(c, RegisterReply(409, FALSE, "User with this email already exists"))
          ELSE Goto(c, "username") /\ UNCHANGED resp
    /\ UNCHANGED <<fs, now, trail, db>>

\* db.Where("username = ?", req.Username).First(&existingUser)
RegisterLookupUsername(c) ==
    /\ At(c, "username")
    /\ IF UsernameExists(db, req.clients[c].body.username)
       THEN Answer(c, RegisterReply(409, FALSE, "User with this username already exists"))
       ELSE Goto(c, "create") /\ UNCHANGED resp
    /\ UNCHANGED <<fs, now, trail, db>>

\* HashPassword, db.Create(&user), GenerateToken and the response
RegisterInsert(c) ==
    /\ At(c, "create")
    /\ \E tokenOk \in BOOLEAN :
           LET r == RegisterCreate(db, req.clients[c].body, tokenOk)
           IN db' = r.users /\ Answer(c, r.resp)
    /\ UNCHANGED <<fs, now, trail>>

NextRegisterRace ==
    \E c \in Clients :
        \/ RegisterLookupEmail(c)
        \/ RegisterLookupUsername(c)
        \/ RegisterInsert(c)

SpecRegisterRace == InitRegisterRace /\ [][NextRegisterRace]_vars

Registered(c) == req.clients[c].pc = "done" /\ resp.replies[c].status = 201

\* C30: for every interleaving of concurrent Register requests, the stored
\* users never contain two users with the same username nor two with the
\* same email, and at most one of the concurrent requests for the same
\* username (or the same email) ends with 201.
C30_UniqueUnderConcurrency ==
    /\ \A i, j \in 1..Len(db) :
           i # j => db[i].Username # db[j].Username /\ db[i].Email # db[j].Email
    /\ \A c, d \in Clients :
           (c # d /\ Registered(c) /\ Registered(d))
               => /\ req.clients[c].body.username # req.clients[d].body.username
                  /\ req.clients[c].body.email # req.clients[d].body.email

====
